---- MODULE Spec2Model ----
(***************************************************************************)
(* A model of the A.L.T.A-NVR core: the camera manager (capture workers,   *)
(* latest-frame slot, bounded frame queue), the recording manager          *)
(* (segment workers and the retention passes) and the detection engine.    *)
(*                                                                         *)
(* Threads are modelled at the granularity of their blocking calls and of  *)
(* the statements between which another thread can run.  A frame is the    *)
(* ordinal of the backend read that returned it (1, 2, ...); 0 stands for  *)
(* Python's None.                                                          *)
(***************************************************************************)
EXTENDS Integers, Sequences, FiniteSets, TLC

\* ---------------------------------------------------------------- bounds

\* Frames one camera's backend delivers before every further read fails.
MaxFrames == 32

\* The count of consecutive failed opens saturates here.
MaxFails == 2

\* The clock stops here.  One tick is the time a segment takes to grow by one
\* chunk of frames.
MaxTime == 5

\* Event rows ever inserted.
MaxEvents == 2

\* ------------------------------------------------------ program constants

\* queue.Queue(maxsize=30)
QueueMaxSize == 30

\* "if camera.frame_count % 30 == 0": the fps window
FpsWindow == 30

\* "max_frames = fps * 3600": the chunks of frames after which a segment is
\* closed (one hour of frames).
MaxSegmentChunks == 2

\* self.config.retention_days, in ticks
RetentionTicks == 1

\* self.config.max_storage_gb, in the size of one chunk of frames
MaxStorage == 3

\* The offsets of local time (datetime.now()) from UTC (datetime.utcnow()).
TzOffsets == {0, 1}

CameraIds == {1, 2}

\* The capture threads that can be alive for one camera: a thread abandoned by
\* a timed-out join stays alive beside the one a later start_camera creates.
Workers == {1, 2}

None == 0

\* "time.sleep(0.1)  # Limit processing rate" of _detection_thread, in ticks
ThrottleTicks == 1

\* "time.sleep(1)" of _detection_thread's exception handler, and of its
\* iterations without a camera manager.  A sleep ends no earlier than its
\* length and any time later, so the ticks counted here are the least the
\* thread waits: one tick, the throttle interval, under-states this sleep
\* and leaves every behaviour of the longer one possible.
ErrorSleepTicks == 1

\* ------------------------------------------------------------------ state

VARIABLES
    running,        \* CameraManager.running
    cameras,        \* keys of CameraManager.cameras
    is_running,     \* CameraStream.is_running
    capture,        \* CameraStream.capture: "None", "closed" (a VideoCapture
                    \* that is not opened) or "open"
    last_frame,     \* CameraStream.last_frame (0: None)
    frame_count,    \* CameraStream.frame_count
    frame_queue,    \* CameraStream.frame_queue
    threads,        \* CameraManager._threads: camera -> worker (0: no entry)
    worker,         \* the capture threads: camera -> worker -> [pc, frame]
    nread,          \* frames the camera's backend has delivered so far
    main,           \* the caller's thread: the call it is in
    db_cameras,     \* the catalog's camera rows with enabled = True: their ids
    newest,         \* history: the newest frame ever stored as last_frame
    open_failures   \* history: failed opens of the camera since it was last
                    \* stopped (or added)

VARIABLES
    rec_running,        \* RecordingManager.running
    rec_phase,          \* "init", "started" (start() was called), "stopped"
    rec_cm,             \* RecordingManager.camera_manager is set
    recording_threads,  \* keys of RecordingManager.recording_threads
    rthread,            \* the recording threads: camera ->
                        \* [pc, start, began, written, id]
    files,              \* the files under the storage root: path -> size
    recordings,         \* the catalog's Recording rows
    seg_count,          \* segments opened so far (a row's id is its segment's number)
    cleanup_pc,         \* _storage_cleanup_loop: "sleep" or "age_done"
    utc,                \* the time, in ticks
    tz,                 \* local time - UTC, in ticks
    evicted             \* history: the ids of the rows each pass has deleted, and
                        \* of those deleted while their file was already absent

recVars == <<rec_running, rec_phase, rec_cm, recording_threads, rthread, files,
             recordings, seg_count, cleanup_pc, utc, tz, evicted>>

camVars == <<running, cameras, is_running, capture, last_frame, frame_count,
             frame_queue, threads, worker, nread, main, db_cameras, newest,
             open_failures>>

VARIABLES
    det_running,        \* DetectionEngine.running
    det_phase,          \* "init", "started" (start() was called), "stopped"
    det_model,          \* DetectionEngine.model is loaded (FALSE: None)
    det_cm,             \* DetectionEngine.camera_manager is set
    detection_threads,  \* keys of DetectionEngine.detection_threads
    dlive,              \* the detection threads alive: camera -> set of threads
    events,             \* the catalog's Event rows
    event_count,        \* Event rows inserted so far (the last row id)
    dsleep,             \* the detection threads: camera -> thread -> the ticks its
                        \* time.sleep() still lasts (0: it is not sleeping)
    dsince              \* camera -> the ticks since the model was last called for
                        \* it, up to ThrottleTicks (also: never called)

detVars == <<det_running, det_phase, det_model, det_cm, detection_threads,
             dlive, events, event_count, dsleep, dsince>>

VARIABLES
    db_disabled,        \* the catalog's camera rows with enabled = False
    db_invalid          \* the catalog's camera rows whose settings text is
                        \* not JSON

regVars == <<db_disabled, db_invalid>>

vars == <<camVars, recVars, detVars, regVars>>

\* What the steps of the camera manager, of the recording manager and of the
\* detection engine leave alone.
notCamVars == <<recVars, detVars, regVars>>

notRecVars == <<camVars, detVars, regVars>>

notDetVars == <<camVars, recVars, regVars>>

\* ---------------------------------------------------------------- helpers

Min(a, b) == IF a < b THEN a ELSE b

Max(a, b) == IF a > b THEN a ELSE b

\* queue.Queue(maxsize=30).  No code of the repository ever takes a frame out
\* of the queue, so its content is kept as its size, its oldest and its newest
\* element.
EmptyQueue == [size |-> 0, oldest |-> None, newest |-> None]

Full(q) == q.size >= QueueMaxSize

\* (a variant of PutNowait: the queue has no maxsize)
PutNowaitUnbounded(q, f) ==
    [size |-> q.size + 1, oldest |-> IF q.size = 0 THEN f ELSE q.oldest, newest |-> f]

\* (a variant of PutNowait: a full queue drops its oldest frame for the new one)
PutNowaitDropOldest(q, f) ==
    IF Full(q)
    THEN [size |-> q.size, oldest |-> q.oldest + 1, newest |-> f]
    ELSE PutNowaitUnbounded(q, f)

\* "if not camera.frame_queue.full(): camera.frame_queue.put_nowait(frame)",
\* with queue.Full swallowed: a full queue is left as it is.
PutNowait(q, f) ==
    IF ~Full(q)
    THEN [size |-> q.size + 1,
          oldest |-> IF q.size = 0 THEN f ELSE q.oldest,
          newest |-> f]
    ELSE q

\* CameraManager.get_frame
GetFrame(c) == IF c \in cameras THEN last_frame[c] ELSE None

\* get_camera_info(c)['frame_count']: "if camera_id not in self.cameras:
\* return None", else the stream's frame_count
GetCameraInfoFrameCount(c) == IF c \in cameras THEN frame_count[c] ELSE None

Idle == [op |-> "idle", cam |-> 0, todo |-> {}]

FreeWorkers(c) == {w \in Workers : worker[c][w].pc = "done"}

\* ------------------------------------------------------------------- Init

\* After NVRSystem.startup has constructed the managers: nothing is started.
CamInit ==
    /\ running = FALSE
    /\ cameras = {}
    /\ is_running = [c \in CameraIds |-> FALSE]
    /\ capture = [c \in CameraIds |-> "None"]
    /\ last_frame = [c \in CameraIds |-> None]
    /\ frame_count = [c \in CameraIds |-> 0]
    /\ frame_queue = [c \in CameraIds |-> EmptyQueue]
    /\ threads = [c \in CameraIds |-> 0]
    /\ worker = [c \in CameraIds |-> [w \in Workers |-> [pc |-> "done", frame |-> None]]]
    /\ nread = [c \in CameraIds |-> 0]
    /\ main = [op |-> "init", cam |-> 0, todo |-> {}]
    /\ newest = [c \in CameraIds |-> None]
    /\ open_failures = [c \in CameraIds |-> 0]

\* The files under the storage root: a function from the paths that exist.
NoFiles == [p \in {} |-> 0]

RecInit ==
    /\ rec_running = FALSE
    /\ rec_phase = "init"
    /\ rec_cm = FALSE
    /\ recording_threads = {}
    /\ rthread = [c \in CameraIds |-> [pc |-> "done", start |-> 0, began |-> 0, written |-> 0, id |-> 0]]
    /\ files = NoFiles
    /\ recordings = {}
    /\ seg_count = 0
    /\ cleanup_pc = "sleep"
    /\ utc = 0
    /\ evicted = [age |-> {}, capacity |-> {}, absent |-> {}]

DetInit ==
    /\ det_running = FALSE
    /\ det_phase = "init"
    /\ det_model = FALSE
    /\ det_cm = FALSE
    /\ detection_threads = {}
    /\ dlive = [c \in CameraIds |-> {}]
    /\ events = {}
    /\ event_count = 0
    /\ dsleep = [c \in CameraIds |-> [w \in Workers |-> 0]]
    /\ dsince = [c \in CameraIds |-> ThrottleTicks]

Init ==
    /\ CamInit
    /\ RecInit
    /\ DetInit
    /\ db_cameras = {1}
    /\ db_disabled = {}
    /\ db_invalid = {}
    /\ tz = 0

\* ------------------------------------------------- CameraManager: the calls

\* What the caller's thread does once stop_camera has returned inside `op`.
AfterStopCamera(op, todo) ==
    IF op = "stop"
    THEN IF todo = {} THEN [op |-> "stopped", cam |-> 0, todo |-> {}]
                      ELSE [op |-> "stop", cam |-> 0, todo |-> todo]
    ELSE IF op = "remove_camera"
    THEN [op |-> "remove_camera", cam |-> 0, todo |-> todo]
    ELSE Idle

\* (a variant of OpenFailed: the isOpened() test is missing, a failed open is
\* taken for a successful one)
OpenFailedUnchecked(c) ==
    /\ FreeWorkers(c) # {}
    /\ LET w == CHOOSE x \in FreeWorkers(c) : \A y \in FreeWorkers(c) : x <= y
       IN /\ capture' = [capture EXCEPT ![c] = "closed"]
          /\ is_running' = [is_running EXCEPT ![c] = TRUE]
          /\ worker' = [worker EXCEPT ![c][w] = [pc |-> "loop", frame |-> None]]
          /\ threads' = [threads EXCEPT ![c] = w]
    /\ UNCHANGED open_failures

\* start_camera's body for a registered camera that is not running: open the
\* backend; on success mark the camera running and start its capture thread.
OpenFailed(c) ==
    /\ capture' = [capture EXCEPT ![c] = "closed"]
    /\ open_failures' = [open_failures EXCEPT ![c] = Min(@ + 1, MaxFails)]
    /\ UNCHANGED <<is_running, threads, worker>>

OpenSucceeded(c) ==
    /\ FreeWorkers(c) # {}
    /\ LET w == CHOOSE x \in FreeWorkers(c) : \A y \in FreeWorkers(c) : x <= y
       IN /\ capture' = [capture EXCEPT ![c] = "open"]
          /\ is_running' = [is_running EXCEPT ![c] = TRUE]
          /\ worker' = [worker EXCEPT ![c][w] = [pc |-> "loop", frame |-> None]]
          /\ threads' = [threads EXCEPT ![c] = w]
    /\ UNCHANGED open_failures

\* CameraManager.start_camera(c); `opened` is what isOpened() answers.
StartCamera(c, opened) ==
    /\ main = Idle
    /\ IF c \notin cameras
       THEN UNCHANGED <<is_running, capture, threads, worker, open_failures>>
       ELSE IF is_running[c]
       THEN UNCHANGED <<is_running, capture, threads, worker, open_failures>>
       ELSE IF opened THEN OpenSucceeded(c) ELSE OpenFailed(c)
    /\ UNCHANGED <<running, cameras, last_frame, frame_count, frame_queue, nread,
                   main, db_cameras, newest>>
    /\ UNCHANGED notCamVars

\* load_cameras: the enabled rows that "for camera in cameras" reaches, in the
\* order of their ids: add_camera's json.loads(camera.settings) raises for a
\* row whose settings are not JSON, and nothing catches it before start()'s
\* caller.
Reached == {c \in db_cameras : \A d \in db_cameras \cap db_invalid : c < d}

\* NVRSystem.startup has raised: the application does not come up.
Failed == [op |-> "failed", cam |-> 0, todo |-> {}]

\* CameraManager.start: running = True, then load_cameras: add_camera and
\* start_camera for every enabled camera row it reaches.  opened[c] is
\* isOpened()'s answer.
Start(opened) ==
    /\ main.op = "init"
    /\ running' = TRUE
    /\ cameras' = Reached
    /\ is_running' = [c \in CameraIds |-> c \in Reached /\ opened[c]]
    /\ capture' = [c \in CameraIds |->
                     IF c \notin Reached THEN "None"
                     ELSE IF opened[c] THEN "open" ELSE "closed"]
    /\ worker' = [c \in CameraIds |->
                     IF c \in Reached /\ opened[c]
                     THEN [worker[c] EXCEPT ![1] = [pc |-> "loop", frame |-> None]]
                     ELSE worker[c]]
    /\ threads' = [c \in CameraIds |-> IF c \in Reached /\ opened[c] THEN 1 ELSE 0]
    /\ open_failures' = [c \in CameraIds |->
                           IF c \in Reached /\ ~opened[c] THEN 1 ELSE 0]
    /\ last_frame' = [c \in CameraIds |-> None]
    /\ frame_count' = [c \in CameraIds |-> 0]
    /\ frame_queue' = [c \in CameraIds |-> EmptyQueue]
    /\ newest' = [c \in CameraIds |-> None]
    /\ main' = IF db_cameras \cap db_invalid = {} THEN Idle ELSE Failed
    /\ UNCHANGED <<nread, db_cameras>>
    /\ UNCHANGED notCamVars

\* (a variant of StopCameraBody: the handle is released but not set to None)
StopCameraBodyKeepsHandle(c, op, todo) ==
    /\ is_running' = [is_running EXCEPT ![c] = FALSE]
    /\ capture' = [capture EXCEPT ![c] = IF @ = "None" THEN "None" ELSE "closed"]
    /\ open_failures' = [open_failures EXCEPT ![c] = 0]
    /\ main' = IF threads[c] # 0
               THEN [op |-> op, cam |-> c, todo |-> todo]
               ELSE AfterStopCamera(op, todo)
    /\ UNCHANGED <<threads, worker>>

\* stop_camera's body up to the join, for a registered camera, called from
\* `op`: clear the flag, release and drop the handle, then join the thread that
\* _threads names (if any).
StopCameraBody(c, op, todo) ==
    /\ is_running' = [is_running EXCEPT ![c] = FALSE]
    /\ capture' = [capture EXCEPT ![c] = "None"]
    /\ open_failures' = [open_failures EXCEPT ![c] = 0]
    /\ main' = IF threads[c] # 0
               THEN [op |-> op, cam |-> c, todo |-> todo]
               ELSE AfterStopCamera(op, todo)
    /\ UNCHANGED <<threads, worker>>

\* CameraManager.stop_camera(c), up to its return or to the join it blocks in.
StopCamera(c) ==
    /\ main = Idle
    /\ IF c \notin cameras
       THEN UNCHANGED <<is_running, capture, threads, worker, open_failures, main>>
       ELSE StopCameraBody(c, "stop_camera", {})
    /\ UNCHANGED <<running, cameras, last_frame, frame_count, frame_queue, nread,
                   db_cameras, newest>>
    /\ UNCHANGED notCamVars

\* "self._threads[camera_id].join(timeout=5); del self._threads[camera_id]":
\* the join returns because the thread has ended ...
JoinEnded(c) ==
    /\ main.cam = c
    /\ main.op \in {"stop_camera", "stop", "remove_camera"}
    /\ worker[c][threads[c]].pc = "done"
    /\ threads' = [threads EXCEPT ![c] = 0]
    /\ main' = AfterStopCamera(main.op, main.todo)
    /\ UNCHANGED <<running, cameras, is_running, capture, last_frame, frame_count,
                   frame_queue, worker, nread, db_cameras, newest, open_failures>>
    /\ UNCHANGED notCamVars

\* A variant of JoinTimedOut: join() without a timeout never returns while the
\* thread is blocked in read().
JoinWithoutTimeout(c) ==
    /\ main.cam = c
    /\ worker[c][threads[c]].pc = "reading"
    /\ FALSE
    /\ UNCHANGED vars

\* ... or because 5 s have passed with the thread still blocked in the
\* backend's read(): the thread is left alive and its entry is deleted.
JoinTimedOut(c) ==
    /\ main.cam = c
    /\ main.op \in {"stop_camera", "stop", "remove_camera"}
    /\ worker[c][threads[c]].pc = "reading"
    /\ threads' = [threads EXCEPT ![c] = 0]
    /\ main' = AfterStopCamera(main.op, main.todo)
    /\ UNCHANGED <<running, cameras, is_running, capture, last_frame, frame_count,
                   frame_queue, worker, nread, db_cameras, newest, open_failures>>
    /\ UNCHANGED notCamVars

\* CameraManager.stop: running = False, then stop_camera for every camera.
Stop ==
    /\ main = Idle
    /\ running' = FALSE
    /\ main' = AfterStopCamera("stop", cameras)
    /\ UNCHANGED <<cameras, is_running, capture, last_frame, frame_count,
                   frame_queue, threads, worker, nread, db_cameras, newest,
                   open_failures>>
    /\ UNCHANGED notCamVars

\* The next "await self.stop_camera(camera_id)" of CameraManager.stop's loop.
StopNext ==
    /\ main.op = "stop"
    /\ main.cam = 0
    /\ LET c == CHOOSE x \in main.todo : \A y \in main.todo : x <= y
       IN StopCameraBody(c, "stop", main.todo \ {c})
    /\ UNCHANGED <<running, cameras, last_frame, frame_count, frame_queue, nread,
                   db_cameras, newest>>
    /\ UNCHANGED notCamVars

\* ------------------------------------------- CameraManager._capture_thread

SetPc(c, w, pc, f) == worker' = [worker EXCEPT ![c][w] = [pc |-> pc, frame |-> f]]

\* "while camera.is_running and self.running:" and, inside, "if camera.capture
\* and camera.capture.isOpened():" up to the call of read().  With no opened
\* handle the iteration does nothing.
WorkerLoop(c, w) ==
    /\ worker[c][w].pc = "loop"
    /\ IF is_running[c] /\ running
       THEN /\ capture[c] = "open"
            /\ SetPc(c, w, "reading", None)
       ELSE SetPc(c, w, "done", None)
    /\ UNCHANGED <<running, cameras, is_running, capture, last_frame, frame_count,
                   frame_queue, threads, nread, main, db_cameras, newest,
                   open_failures>>
    /\ UNCHANGED notCamVars

\* "ret, frame = camera.capture.read()" returns: a frame, or ret = False (a
\* read failure or the end of the stream); then "if ret:" is false, nothing is
\* done and the loop goes round.
WorkerReadUpTo(c, w, ret, limit) ==
    /\ worker[c][w].pc = "reading"
    /\ IF ret
       THEN /\ nread[c] < limit
            /\ nread' = [nread EXCEPT ![c] = @ + 1]
            /\ SetPc(c, w, "store", nread[c] + 1)
       ELSE /\ SetPc(c, w, "loop", None)
            /\ UNCHANGED nread
    /\ UNCHANGED <<running, cameras, is_running, capture, last_frame, frame_count,
                   frame_queue, threads, main, db_cameras, newest, open_failures>>
    /\ UNCHANGED notCamVars

WorkerRead(c, w, ret) == WorkerReadUpTo(c, w, ret, MaxFrames)

\* "if ret:" is true: store the frame as last_frame, count it, compute fps on
\* every 30th frame and put the frame in the queue.  The fps division is by
\* time.time() - camera.last_frame_time, set three lines before: when the clock
\* has not advanced it raises (`raises`), and the handler skips the put.
WorkerStore(c, w, raises) ==
    /\ worker[c][w].pc = "store"
    /\ LET f == worker[c][w].frame
       IN /\ last_frame' = [last_frame EXCEPT ![c] = f]
          /\ newest' = [newest EXCEPT ![c] = Max(@, f)]
          /\ frame_count' = [frame_count EXCEPT ![c] = @ + 1]
          /\ IF raises
             THEN /\ (frame_count[c] + 1) % FpsWindow = 0
                  /\ UNCHANGED frame_queue
             ELSE frame_queue' = [frame_queue EXCEPT ![c] = PutNowait(@, f)]
    /\ SetPc(c, w, "loop", None)
    /\ UNCHANGED <<running, cameras, is_running, capture, threads, nread, main,
                   db_cameras, open_failures>>
    /\ UNCHANGED notCamVars

\* ------------------------------------------------------------------ Spec

CamNext ==
    \/ \E opened \in [CameraIds -> BOOLEAN] : Start(opened)
    \/ \E c \in CameraIds, opened \in BOOLEAN : StartCamera(c, opened)
    \/ \E c \in CameraIds : StopCamera(c)
    \/ \E c \in CameraIds : JoinEnded(c)
    \/ \E c \in CameraIds : JoinTimedOut(c)
    \/ Stop
    \/ StopNext
    \/ \E c \in CameraIds, w \in Workers : WorkerLoop(c, w)
    \/ \E c \in CameraIds, w \in Workers, ret \in BOOLEAN : WorkerRead(c, w, ret)
    \/ \E c \in CameraIds, w \in Workers, raises \in BOOLEAN : WorkerStore(c, w, raises)

Next == CamNext

Spec == Init /\ [][Next]_vars

TypeOK ==
    /\ running \in BOOLEAN
    /\ cameras \subseteq CameraIds
    /\ \A c \in CameraIds :
        /\ capture[c] \in {"None", "closed", "open"}
        /\ last_frame[c] \in 0..MaxFrames
        /\ threads[c] \in Workers \cup {0}
        /\ \A w \in Workers :
             worker[c][w].pc \in {"loop", "reading", "store", "done"}

\* The code's own steps: what runs without a call from outside.
Internal ==
    \/ \E c \in CameraIds : JoinEnded(c)
    \/ \E c \in CameraIds : JoinTimedOut(c)
    \/ StopNext
    \/ \E c \in CameraIds, w \in Workers : WorkerLoop(c, w)
    \/ \E c \in CameraIds, w \in Workers, ret \in BOOLEAN : WorkerRead(c, w, ret)
    \/ \E c \in CameraIds, w \in Workers, raises \in BOOLEAN : WorkerStore(c, w, raises)

\* The threads are scheduled and a join returns; no caller is obliged to call.
FairSpec == Spec /\ WF_vars(Internal)

\* --------------------------------------------------------------- the clocks

\* datetime.utcnow(): the default of the created_at columns
UtcNow == utc

\* datetime.now(): naive local time
Now == utc + tz

\* What is left of the sleeps of the detection threads, and the time since
\* the model was called for each camera, n ticks later.
SleepAfter(n) ==
    [c \in CameraIds |-> [w \in Workers |-> Max(dsleep[c][w] - n, 0)]]

SinceAfter(n) == [c \in CameraIds |-> Min(dsince[c] + n, ThrottleTicks)]

Tick ==
    /\ utc < MaxTime
    /\ utc' = utc + 1
    /\ dsleep' = SleepAfter(1)
    /\ dsince' = SinceAfter(1)
    /\ UNCHANGED <<rec_running, rec_phase, rec_cm, recording_threads, rthread,
                   files, recordings, seg_count, cleanup_pc, tz, evicted>>
    /\ UNCHANGED <<det_running, det_phase, det_model, det_cm, detection_threads,
                   dlive, events, event_count>>
    /\ UNCHANGED <<camVars, regVars>>

\* The host's local time is set back (daylight saving time ends):
\* datetime.now() jumps, datetime.utcnow() does not.
ClockShift ==
    /\ tz - 1 \in TzOffsets
    /\ tz' = tz - 1
    /\ UNCHANGED <<rec_running, rec_phase, rec_cm, recording_threads, rthread,
                   files, recordings, seg_count, cleanup_pc, utc, evicted>>
    /\ UNCHANGED notRecVars

\* --------------------------------------------------------- the storage root

Exists(fs, path) == path \in DOMAIN fs

\* cv2.VideoWriter(output_path, ...): the file is created, or truncated
CreateFile(fs, path) ==
    [p \in DOMAIN fs \cup {path} |-> IF p = path THEN 0 ELSE fs[p]]

\* out.write(frame) for one chunk of frames
AppendChunk(fs, path) ==
    IF Exists(fs, path) THEN [fs EXCEPT ![path] = @ + 1] ELSE fs

\* (a variant of Unlink: the files are left where they are)
UnlinkNothing(fs, paths) == [p \in DOMAIN fs |-> fs[p]]

\* filepath.unlink() for each path of `paths`
Unlink(fs, paths) == [p \in DOMAIN fs \ paths |-> fs[p]]

RECURSIVE SumSizes(_, _)
SumSizes(fs, paths) ==
    IF paths = {} THEN 0
    ELSE LET p == CHOOSE x \in paths : TRUE
         IN fs[p] + SumSizes(fs, paths \ {p})

\* "for path in self.storage_path.rglob('*'): total_size += path.stat().st_size"
TotalSize(fs) == SumSizes(fs, DOMAIN fs)

\* camera_dir / f"{camera_id}_{timestamp}.mp4", the directory and the timestamp
\* taken from datetime.now()
SegmentPath(c, start) == <<c, start>>

\* ------------------------------------------- RecordingManager: the calls

\* RecordingManager.start
RecStart ==
    /\ rec_phase = "init"
    /\ rec_running' = TRUE
    /\ rec_phase' = "started"
    /\ UNCHANGED <<rec_cm, recording_threads, rthread, files, recordings,
                   seg_count, cleanup_pc, utc, tz, evicted>>
    /\ UNCHANGED notRecVars

\* RecordingManager.stop: the flag is cleared; the joins change no state
RecStop ==
    /\ rec_phase = "started"
    /\ rec_running' = FALSE
    /\ rec_phase' = "stopped"
    /\ UNCHANGED <<rec_cm, recording_threads, rthread, files, recordings,
                   seg_count, cleanup_pc, utc, tz, evicted>>
    /\ UNCHANGED notRecVars

\* RecordingManager.set_camera_manager
SetCameraManager ==
    /\ ~rec_cm
    /\ rec_cm' = TRUE
    /\ UNCHANGED <<rec_running, rec_phase, recording_threads, rthread, files,
                   recordings, seg_count, cleanup_pc, utc, tz, evicted>>
    /\ UNCHANGED notRecVars

\* RecordingManager.start_recording(c)
StartRecording(c) ==
    /\ c \notin recording_threads
    /\ rthread[c].pc = "done"
    /\ recording_threads' = recording_threads \cup {c}
    /\ rthread' = [rthread EXCEPT ![c] = [pc |-> "loop", start |-> 0, began |-> 0, written |-> 0, id |-> 0]]
    /\ UNCHANGED <<rec_running, rec_phase, rec_cm, files, recordings, seg_count,
                   cleanup_pc, utc, tz, evicted>>
    /\ UNCHANGED notRecVars

\* RecordingManager.stop_recording(c): the join returns when the thread has
\* ended or after its timeout, and the entry is deleted; nothing tells the
\* thread to end.
StopRecording(c) ==
    /\ c \in recording_threads
    /\ recording_threads' = recording_threads \ {c}
    /\ UNCHANGED <<rec_running, rec_phase, rec_cm, rthread, files, recordings,
                   seg_count, cleanup_pc, utc, tz, evicted>>
    /\ UNCHANGED notRecVars

\* ---------------------------------------- RecordingManager._recording_thread

\* "while self.running:" up to the call of _record_video.  Without a camera
\* manager, or with the camera not running, the iteration only sleeps.
RecLoop(c) ==
    /\ rthread[c].pc = "loop"
    /\ IF ~rec_running
       THEN /\ rthread' = [rthread EXCEPT ![c].pc = "done"]
            /\ UNCHANGED files
       ELSE /\ rec_cm
            /\ c \in cameras
            /\ is_running[c]
            /\ rthread' = [rthread EXCEPT ![c] =
                             [pc |-> "recording", start |-> Now, began |-> utc,
                              written |-> 0, id |-> seg_count + 1]]
            /\ files' = CreateFile(files, SegmentPath(c, Now))
    /\ seg_count' = IF rec_running THEN seg_count + 1 ELSE seg_count
    /\ UNCHANGED <<rec_running, rec_phase, rec_cm, recording_threads, recordings,
                   cleanup_pc, utc, tz, evicted>>
    /\ UNCHANGED notRecVars

\* _record_video's loop: "frame = get_frame(camera_id); if frame is not None:
\* out.write(frame); frame_count += 1", then "time.sleep(1 / fps)": a chunk of
\* frames takes one tick.
RecWrite(c) ==
    /\ rthread[c].pc = "recording"
    /\ rec_running
    /\ rthread[c].written < MaxSegmentChunks
    /\ rthread[c].written < utc - rthread[c].began
    /\ GetFrame(c) # None
    /\ rthread' = [rthread EXCEPT ![c].written = @ + 1]
    /\ files' = AppendChunk(files, SegmentPath(c, rthread[c].start))
    /\ UNCHANGED <<rec_running, rec_phase, rec_cm, recording_threads, recordings,
                   seg_count, cleanup_pc, utc, tz, evicted>>
    /\ UNCHANGED notRecVars

\* The row _recording_thread builds once _record_video has returned.
RecordingRow(c, id, start) ==
    [id |-> id,
     camera_id |-> c,
     start_time |-> start,
     end_time |-> Now,
     file_path |-> SegmentPath(c, start),
     file_size |-> IF Exists(files, SegmentPath(c, start))
                   THEN files[SegmentPath(c, start)] ELSE 0,
     created_at |-> UtcNow]

\* _record_video returns ("while self.running and frame_count < max_frames" is
\* false) and the Recording row is inserted.  The writer was opened and
\* released since start_time was read: time has passed.  When the insert raises
\* (~inserted) the handler logs, sleeps and the loop goes round: the file stays
\* and no row is written.
RecClose(c, inserted) ==
    /\ rthread[c].pc = "recording"
    /\ ~rec_running \/ rthread[c].written = MaxSegmentChunks
    /\ utc > rthread[c].began
    /\ recordings' = IF inserted
                     THEN recordings \cup {RecordingRow(c, rthread[c].id, rthread[c].start)}
                     ELSE recordings
    /\ rthread' = [rthread EXCEPT ![c] = [pc |-> "loop", start |-> 0, began |-> 0, written |-> 0, id |-> 0]]
    /\ UNCHANGED <<rec_running, rec_phase, rec_cm, recording_threads, files,
                   seg_count, cleanup_pc, utc, tz, evicted>>
    /\ UNCHANGED notRecVars

\* ------------------------------------------------------ the retention passes

\* The rows of `rows` for which "filepath.exists()" is false.
Absent(rows) == {r \in rows : ~Exists(files, r.file_path)}

\* "db.query(Recording).filter(Recording.created_at < cutoff_date).all()" with
\* cutoff_date = datetime.now() - timedelta(days=retention_days)
OldRecordings == {r \in recordings : r.created_at < Now - RetentionTicks}

\* A variant of CleanupOldRecordings: the pass selects by the storage root, not
\* by the catalog: every file whose name is older than the cutoff is unlinked,
\* and the rows of these files are deleted.
CleanupOldFiles ==
    /\ cleanup_pc = "sleep"
    /\ rec_running
    /\ LET old == {p \in DOMAIN files : p[2] < Now - RetentionTicks}
       IN /\ files' = Unlink(files, old)
          /\ recordings' = {r \in recordings : r.file_path \notin old}
          /\ evicted' = [evicted EXCEPT
                           !.age = @ \cup {r.id : r \in {q \in recordings : q.file_path \in old}}]
    /\ cleanup_pc' = "age_done"
    /\ UNCHANGED <<rec_running, rec_phase, rec_cm, recording_threads, rthread,
                   seg_count, utc, tz>>
    /\ UNCHANGED notRecVars

\* A variant of CleanupOldRecordings: "db.delete(recording)" under
\* "if filepath.exists():", so that a row whose file is absent is kept.
CleanupOldRecordingsSkipsAbsent ==
    /\ cleanup_pc = "sleep"
    /\ rec_running
    /\ files' = Unlink(files, {r.file_path : r \in OldRecordings})
    /\ recordings' = recordings \ (OldRecordings \ Absent(OldRecordings))
    /\ evicted' = [evicted EXCEPT
                     !.age = @ \cup {r.id : r \in OldRecordings \ Absent(OldRecordings)}]
    /\ cleanup_pc' = "age_done"
    /\ UNCHANGED <<rec_running, rec_phase, rec_cm, recording_threads, rthread,
                   seg_count, utc, tz>>
    /\ UNCHANGED notRecVars

\* RecordingManager._cleanup_old_recordings
CleanupOldRecordings ==
    /\ cleanup_pc = "sleep"
    /\ rec_running
    /\ files' = Unlink(files, {r.file_path : r \in OldRecordings})
    /\ recordings' = recordings \ OldRecordings
    /\ evicted' = [evicted EXCEPT
                     !.age = @ \cup {r.id : r \in OldRecordings},
                     !.absent = @ \cup {r.id : r \in Absent(OldRecordings)}]
    /\ cleanup_pc' = "age_done"
    /\ UNCHANGED <<rec_running, rec_phase, rec_cm, recording_threads, rthread,
                   seg_count, utc, tz>>
    /\ UNCHANGED notRecVars

\* _cleanup_old_recordings when "filepath.unlink()" raises for the row `bad`
\* after the files of the rows `done` were unlinked: the exception leaves the
\* function through "finally: db.close()", which drops the pending deletes,
\* and _storage_cleanup_loop logs it and sleeps without the capacity pass.
CleanupOldRecordingsUnlinkFails(done, bad) ==
    /\ cleanup_pc = "sleep"
    /\ rec_running
    /\ done \subseteq OldRecordings
    /\ bad \in OldRecordings \ done
    /\ Exists(files, bad.file_path)
    /\ bad.file_path \notin {r.file_path : r \in done}
    /\ files' = Unlink(files, {r.file_path : r \in done})
    /\ UNCHANGED <<rec_running, rec_phase, rec_cm, recording_threads, rthread,
                   recordings, seg_count, cleanup_pc, utc, tz, evicted>>
    /\ UNCHANGED notRecVars

\* _cleanup_old_recordings when "db.commit()" raises: every file is unlinked
\* and no row is deleted.
CleanupOldRecordingsCommitFails ==
    /\ cleanup_pc = "sleep"
    /\ rec_running
    /\ OldRecordings # {}
    /\ files' = Unlink(files, {r.file_path : r \in OldRecordings})
    /\ UNCHANGED <<rec_running, rec_phase, rec_cm, recording_threads, rthread,
                   recordings, seg_count, cleanup_pc, utc, tz, evicted>>
    /\ UNCHANGED notRecVars

\* "order_by(Recording.created_at.asc())"; rows of one creation time come in
\* the order of their ids
Earlier(q, r) ==
    q.created_at < r.created_at \/ (q.created_at = r.created_at /\ q.id < r.id)

RECURSIVE ByCreatedAt(_)
ByCreatedAt(rows) ==
    IF rows = {} THEN <<>>
    ELSE LET first == CHOOSE r \in rows : \A q \in rows \ {r} : Earlier(r, q)
         IN <<first>> \o ByCreatedAt(rows \ {first})

\* _enforce_storage_limit's loop without "if total_size <= max_size_bytes:
\* break".
RemoveOldestNoBreak(order, total, fs, rows) ==
    [files |-> Unlink(fs, {order[i].file_path : i \in 1..Len(order)}),
     recordings |-> rows \ {order[i] : i \in 1..Len(order)}]

\* "for recording in recordings: if total_size <= max_size_bytes: break ..."
RECURSIVE RemoveOldest(_, _, _, _)
RemoveOldest(order, total, fs, rows) ==
    IF order = <<>> \/ total <= MaxStorage
    THEN [files |-> fs, recordings |-> rows]
    ELSE LET r == Head(order)
             there == Exists(fs, r.file_path)
         IN RemoveOldest(Tail(order),
                         IF there THEN total - fs[r.file_path] ELSE total,
                         IF there THEN Unlink(fs, {r.file_path}) ELSE fs,
                         rows \ {r})

\* RecordingManager._enforce_storage_limit
EnforceStorageLimit ==
    /\ cleanup_pc = "age_done"
    /\ LET after == IF TotalSize(files) <= MaxStorage
                    THEN [files |-> files, recordings |-> recordings]
                    ELSE RemoveOldest(ByCreatedAt(recordings), TotalSize(files),
                                      files, recordings)
       IN /\ files' = after.files
          /\ recordings' = after.recordings
          /\ evicted' = [evicted EXCEPT
                           !.capacity = @ \cup {r.id : r \in recordings \ after.recordings},
                           !.absent = @ \cup {r.id : r \in Absent(recordings \ after.recordings)}]
    /\ cleanup_pc' = "sleep"
    /\ UNCHANGED <<rec_running, rec_phase, rec_cm, recording_threads, rthread,
                   seg_count, utc, tz>>
    /\ UNCHANGED notRecVars

\* The rows _enforce_storage_limit deletes, in the order it deletes them.
Victims ==
    IF TotalSize(files) <= MaxStorage THEN <<>>
    ELSE ByCreatedAt(recordings \
            RemoveOldest(ByCreatedAt(recordings), TotalSize(files), files,
                         recordings).recordings)

\* _enforce_storage_limit when the unlink of its j-th row raises, or, with j
\* one past the last row, when "db.commit()" raises: the files of the rows
\* before are unlinked and no row is deleted.
EnforceStorageLimitFails(j) ==
    /\ cleanup_pc = "age_done"
    /\ Victims # <<>>
    /\ j \in 1..(Len(Victims) + 1)
    /\ j <= Len(Victims) =>
          /\ Exists(files, Victims[j].file_path)
          /\ \A i \in 1..(j - 1) : Victims[i].file_path # Victims[j].file_path
    /\ files' = Unlink(files, {Victims[i].file_path : i \in 1..(j - 1)})
    /\ cleanup_pc' = "sleep"
    /\ UNCHANGED <<rec_running, rec_phase, rec_cm, recording_threads, rthread,
                   recordings, seg_count, utc, tz, evicted>>
    /\ UNCHANGED notRecVars

\* ---------------------------------------------------------------- SpecRec

RecInitTz ==
    /\ CamInit
    /\ RecInit
    /\ DetInit
    /\ db_cameras = {1}
    /\ db_disabled = {}
    /\ db_invalid = {}
    /\ tz \in TzOffsets

\* The camera manager's steps that the recording threads can observe.  They
\* only tell "no frame yet" from "a frame": the backend delivers one frame.
CamEnv ==
    \/ \E opened \in [CameraIds -> BOOLEAN] : Start(opened)
    \/ \E c \in CameraIds : StopCamera(c)
    \/ \E c \in CameraIds : JoinEnded(c)
    \/ \E c \in CameraIds : JoinTimedOut(c)
    \/ \E c \in CameraIds, w \in Workers : WorkerLoop(c, w)
    \/ \E c \in CameraIds, w \in Workers, ret \in BOOLEAN :
          WorkerReadUpTo(c, w, ret, 1)
    \/ \E c \in CameraIds, w \in Workers : WorkerStore(c, w, FALSE)

RecSteps ==
    \/ RecStart
    \/ RecStop
    \/ SetCameraManager
    \/ \E c \in CameraIds : StartRecording(c)
    \/ \E c \in CameraIds : RecLoop(c)
    \/ \E c \in CameraIds : RecWrite(c)
    \/ \E c \in CameraIds, inserted \in BOOLEAN : RecClose(c, inserted)
    \/ CleanupOldRecordings
    \/ \E done \in SUBSET recordings, bad \in recordings : CleanupOldRecordingsUnlinkFails(done, bad)
    \/ CleanupOldRecordingsCommitFails
    \/ EnforceStorageLimit
    \/ \E j \in 1..(Cardinality(recordings) + 1) : EnforceStorageLimitFails(j)
    \/ Tick
    \/ ClockShift

RecNext == CamEnv \/ RecSteps

SpecRec == RecInitTz /\ [][RecNext]_vars

\* The recording manager with calls of stop_recording.
RecStopNext == RecNext \/ \E c \in CameraIds : StopRecording(c)

SpecRecStop == RecInitTz /\ [][RecStopNext]_vars

\* ------------------------------------------------------- DetectionEngine

\* self.model.names: the labels the model can report
ModelNames == {"person", "car", "dog"}

\* self.config.detection_classes, as labels
DetectionClasses == {"person", "car"}

\* A box of a result: its label and whether its confidence reaches
\* self.config.detection_confidence.
Box(label, confident) == [label |-> label, confident |-> confident]

Boxes == {Box("person", TRUE), Box("person", FALSE), Box("car", TRUE),
          Box("dog", TRUE)}

\* The results of one call of the model: no box, one box or two.
Results == {<<>>} \cup {<<a>> : a \in Boxes} \cup {<<a, b>> : a, b \in Boxes}

\* A variant of Detections: only "if label in detection_classes:".
DetectionsByLabel(results) ==
    SelectSeq(results, LAMBDA b : b.label \in DetectionClasses)

\* "if label in detection_classes and conf >= confidence_threshold:
\* detections.append(...)", in the order of the boxes
Detections(results) ==
    SelectSeq(results, LAMBDA b : b.label \in DetectionClasses /\ b.confident)

\* The value of the n-th call of datetime.utcnow() in the loop of
\* _save_detection_event, when the clock ticks after k calls.
Stamp(n, k) == IF n <= k THEN UtcNow ELSE UtcNow + 1

\* DetectionEngine._save_detection_event with suppression: a detection is
\* dropped when an Event of its camera and label was emitted within the 5 ticks
\* before it, in an earlier commit or earlier in this one.
SaveDetectionEventDebounced(c, detections, k) ==
    LET kept == {i \in 1..Len(detections) :
                    /\ \A e \in events :
                          ~(e.camera_id = c /\ e.label = detections[i].label
                              /\ UtcNow - e.start_time < 5)
                    /\ \A j \in 1..(i - 1) : detections[j].label # detections[i].label}
    IN {[id |-> event_count + Cardinality({j \in kept : j <= i}), camera_id |-> c,
         label |-> detections[i].label, confident |-> detections[i].confident,
         start_time |-> Stamp(2 * i - 1, k), end_time |-> Stamp(2 * i, k)] : i \in kept}

\* DetectionEngine._save_detection_event: "for detection in detections:
\* event = Event(camera_id, label, confidence, start_time=datetime.utcnow(),
\* end_time=datetime.utcnow(), ...); db.add(event)": the rows one commit adds.
\* Every row reads the clock twice, and the clock may tick between two reads.
SaveDetectionEvent(c, detections, k) ==
    {[id |-> event_count + i, camera_id |-> c, label |-> detections[i].label,
      confident |-> detections[i].confident,
      start_time |-> Stamp(2 * i - 1, k), end_time |-> Stamp(2 * i, k)] :
        i \in 1..Len(detections)}

\* DetectionEngine.start: the flag is set, then the model is loaded, or the
\* load raises and is logged
DetStart(loaded) ==
    /\ det_phase = "init"
    /\ det_running' = TRUE
    /\ det_model' = loaded
    /\ det_phase' = "started"
    /\ UNCHANGED <<det_cm, detection_threads, dlive, events, event_count, dsleep,
                   dsince>>
    /\ UNCHANGED notDetVars

\* DetectionEngine.stop: the flag is cleared; the joins change no state
DetStop ==
    /\ det_phase = "started"
    /\ det_running' = FALSE
    /\ det_phase' = "stopped"
    /\ UNCHANGED <<det_model, det_cm, detection_threads, dlive, events, event_count,
                   dsleep, dsince>>
    /\ UNCHANGED notDetVars

\* DetectionEngine.set_camera_manager
DetSetCameraManager ==
    /\ ~det_cm
    /\ det_cm' = TRUE
    /\ UNCHANGED <<det_running, det_phase, det_model, detection_threads, dlive,
                   events, event_count, dsleep, dsince>>
    /\ UNCHANGED notDetVars

\* DetectionEngine.start_detection(c): a thread is started unless the camera
\* has an entry.  With the flag down the thread's loop ends at once.
StartDetection(c) ==
    /\ c \notin detection_threads
    /\ Workers \ dlive[c] # {}
    /\ detection_threads' = detection_threads \cup {c}
    /\ dlive' = [dlive EXCEPT ![c] =
                   @ \cup {CHOOSE w \in Workers \ @ : \A v \in Workers \ @ : w <= v}]
    /\ UNCHANGED <<det_running, det_phase, det_model, det_cm, events, event_count,
                   dsleep, dsince>>
    /\ UNCHANGED notDetVars

\* DetectionEngine.stop_detection(c): the join returns when the thread has
\* ended or after its timeout, and the entry is deleted; nothing tells the
\* thread to end.
StopDetection(c) ==
    /\ c \in detection_threads
    /\ detection_threads' = detection_threads \ {c}
    /\ UNCHANGED <<det_running, det_phase, det_model, det_cm, dlive, events,
                   event_count, dsleep, dsince>>
    /\ UNCHANGED notDetVars

\* _detection_thread: the sleep is over, "while self.running" is false and the
\* thread ends
DetExit(c, w) ==
    /\ w \in dlive[c]
    /\ dsleep[c][w] = 0
    /\ ~det_running
    /\ dlive' = [dlive EXCEPT ![c] = @ \ {w}]
    /\ UNCHANGED <<det_running, det_phase, det_model, det_cm, detection_threads,
                   events, event_count, dsleep, dsince>>
    /\ UNCHANGED notDetVars

\* One iteration of _detection_thread's loop, taken when the sleep of the
\* iteration before is over.  Without a camera manager it sleeps 1 s, without
\* a frame 0.1 s.  Calling a model that is None raises, and the handler sleeps
\* 1 s; a failed commit (~saved) is logged: both leave the catalog as it was.
\* The clock ticks after k of the calls of utcnow() that build the rows, or not
\* at all during the iteration (k is the number of the calls).  The iteration
\* ends in "time.sleep(0.1)".  (There are results only if the model is called,
\* and a commit that can fail only if there are detections.)
DetectPass(c, w, results, saved, k) ==
    /\ w \in dlive[c]
    /\ dsleep[c][w] = 0
    /\ det_running
    /\ LET detections == Detections(results)
           rows == SaveDetectionEvent(c, detections, k)
           called == det_cm /\ GetFrame(c) # None /\ det_model
           reached == called /\ saved
           ticked == IF k < 2 * Len(detections) THEN 1 ELSE 0
           slept == IF det_cm /\ (GetFrame(c) = None \/ det_model)
                    THEN ThrottleTicks ELSE ErrorSleepTicks
       IN /\ event_count + Len(results) <= MaxEvents
          /\ k \in 0..(2 * Len(detections))
          /\ ~called => results = <<>>
          /\ detections = <<>> => saved
          /\ ticked = 1 => utc < MaxTime
          /\ utc' = utc + ticked
          /\ events' = IF reached THEN events \cup rows ELSE events
          /\ event_count' = IF reached THEN event_count + Cardinality(rows)
                            ELSE event_count
          /\ dsleep' = [SleepAfter(ticked) EXCEPT ![c][w] = slept]
          /\ dsince' = IF called THEN [SinceAfter(ticked) EXCEPT ![c] = ticked]
                        ELSE SinceAfter(ticked)
    /\ UNCHANGED <<det_running, det_phase, det_model, det_cm, detection_threads,
                   dlive>>
    /\ UNCHANGED <<rec_running, rec_phase, rec_cm, recording_threads, rthread,
                   files, recordings, seg_count, cleanup_pc, tz, evicted>>
    /\ UNCHANGED <<camVars, regVars>>

\* An iteration of _detection_thread's loop in which the call of the model
\* raises: the handler logs and sleeps 1 s.
DetectRaises(c, w) ==
    /\ w \in dlive[c]
    /\ dsleep[c][w] = 0
    /\ det_running
    /\ det_cm /\ GetFrame(c) # None /\ det_model
    /\ dsleep' = [dsleep EXCEPT ![c][w] = ErrorSleepTicks]
    /\ dsince' = [dsince EXCEPT ![c] = 0]
    /\ UNCHANGED <<det_running, det_phase, det_model, det_cm, detection_threads,
                   dlive, events, event_count>>
    /\ UNCHANGED notDetVars

\* ---------------------------------------------------------------- SpecDet

\* The camera manager's steps that the detection threads can observe.
DetCamEnv ==
    \/ \E opened \in [CameraIds -> BOOLEAN] : Start(opened)
    \/ \E c \in CameraIds, w \in Workers : WorkerLoop(c, w)
    \/ \E c \in CameraIds, w \in Workers, ret \in BOOLEAN :
          WorkerReadUpTo(c, w, ret, 1)
    \/ \E c \in CameraIds, w \in Workers : WorkerStore(c, w, FALSE)

\* The numbers of calls of utcnow() after which the clock may tick while the
\* rows for `results` are built: before a row, or after the last.
TickPoints(results) == {2 * j : j \in 0..Len(results)}

DetSteps ==
    \/ \E loaded \in BOOLEAN : DetStart(loaded)
    \/ DetStop
    \/ DetSetCameraManager
    \/ \E c \in db_cameras : StartDetection(c)
    \/ \E c \in db_cameras : StopDetection(c)
    \/ \E c \in CameraIds, w \in Workers : DetExit(c, w)
    \/ \E c \in CameraIds, w \in Workers, results \in Results, saved \in BOOLEAN :
          \E k \in TickPoints(results) : DetectPass(c, w, results, saved, k)
    \/ \E c \in CameraIds, w \in Workers : DetectRaises(c, w)
    \/ Tick

\* Detection is asked for, and ended, for the cameras of the catalog.  A tick
\* of the clock during an iteration falls between the building of two rows.
DetNext == DetCamEnv \/ DetSteps

SpecDet == Init /\ [][DetNext]_vars

\* ------------------------------------------------ the catalog's camera rows

CameraRows == db_cameras \cup db_disabled

\* The id the catalog gives a new camera row: one more than the largest id.
NextCameraId ==
    IF CameraRows = {} THEN 1
    ELSE (CHOOSE m \in CameraRows : \A x \in CameraRows : x <= m) + 1

\* NVRSystem.startup has returned and shutdown has not begun: requests are
\* served.
Up == det_phase = "started" /\ main.op \notin {"init", "failed", "stop", "stopped"}

\* CameraManager.add_camera_from_url: an enabled row is committed, then
\* add_camera registers a new CameraStream and start_camera opens it.  (Taken
\* for ids that no stream and no thread of the manager has: a CameraStream that
\* replaces another of its id is not told apart from it here.)
AddCameraFromUrl(opened) ==
    /\ main = Idle
    /\ LET c == NextCameraId
       IN /\ c \in CameraIds
          /\ c \notin cameras
          /\ FreeWorkers(c) = Workers
          /\ db_cameras' = db_cameras \cup {c}
          /\ cameras' = cameras \cup {c}
          /\ last_frame' = [last_frame EXCEPT ![c] = None]
          /\ frame_count' = [frame_count EXCEPT ![c] = 0]
          /\ frame_queue' = [frame_queue EXCEPT ![c] = EmptyQueue]
          /\ newest' = [newest EXCEPT ![c] = None]
          /\ IF opened THEN OpenSucceeded(c) ELSE OpenFailed(c)
    /\ UNCHANGED <<running, nread, main, db_disabled, db_invalid>>
    /\ UNCHANGED <<recVars, detVars>>

\* CameraManager.remove_camera(c), up to the return of its stop_camera or to
\* the join stop_camera blocks in.
RemoveCamera(c) ==
    /\ main = Idle
    /\ IF c \notin cameras
       THEN UNCHANGED <<is_running, capture, threads, worker, open_failures, main>>
       ELSE StopCameraBody(c, "remove_camera", {c})
    /\ UNCHANGED <<running, cameras, last_frame, frame_count, frame_queue, nread,
                   db_cameras, newest>>
    /\ UNCHANGED notCamVars

\* remove_camera after stop_camera has returned: "del self.cameras[camera_id]"
\* and the delete of the camera's row.
RemoveCameraDelete ==
    /\ main.op = "remove_camera"
    /\ main.cam = 0
    /\ LET c == CHOOSE x \in main.todo : TRUE
       IN /\ cameras' = cameras \ {c}
          /\ db_cameras' = db_cameras \ {c}
          /\ db_disabled' = db_disabled \ {c}
          /\ db_invalid' = db_invalid \ {c}
    /\ main' = Idle
    /\ UNCHANGED <<running, is_running, capture, last_frame, frame_count,
                   frame_queue, threads, worker, nread, newest, open_failures>>
    /\ UNCHANGED <<recVars, detVars>>

\* remove_camera after stop_camera has returned, when the delete of the row is
\* rejected: "del self.cameras[camera_id]" has been done, then db.commit()
\* raises (a Recording or Event row still refers to the camera, or the catalog
\* call fails), "finally: db.close()" drops the delete and the exception
\* leaves remove_camera.
RemoveCameraDeleteRaises ==
    /\ main.op = "remove_camera"
    /\ main.cam = 0
    /\ LET c == CHOOSE x \in main.todo : TRUE
       IN /\ c \in CameraRows
          /\ cameras' = cameras \ {c}
    /\ main' = Idle
    /\ UNCHANGED <<running, is_running, capture, last_frame, frame_count,
                   frame_queue, threads, worker, nread, newest, open_failures,
                   db_cameras>>
    /\ UNCHANGED notCamVars

\* PUT /cameras/{c} with a value for `enabled`: the row is changed and
\* committed; no manager is called.
UpdateCamera(c, enabled) ==
    /\ main = Idle
    /\ c \in CameraRows
    /\ db_cameras' = IF enabled THEN db_cameras \cup {c} ELSE db_cameras \ {c}
    /\ db_disabled' = IF enabled THEN db_disabled \ {c} ELSE db_disabled \cup {c}
    /\ UNCHANGED db_invalid
    /\ UNCHANGED <<running, cameras, is_running, capture, last_frame, frame_count,
                   frame_queue, threads, worker, nread, main, newest, open_failures>>
    /\ UNCHANGED <<recVars, detVars>>

\* POST /cameras: an enabled row is committed; no manager is called.
CreateCamera ==
    /\ main = Idle
    /\ NextCameraId \in CameraIds
    /\ db_cameras' = db_cameras \cup {NextCameraId}
    /\ UNCHANGED <<running, cameras, is_running, capture, last_frame, frame_count,
                   frame_queue, threads, worker, nread, main, newest, open_failures,
                   db_disabled, db_invalid>>
    /\ UNCHANGED <<recVars, detVars>>

\* DELETE /cameras/{c}: the row is deleted; no manager is called.
DeleteCamera(c) ==
    /\ main = Idle
    /\ c \in CameraRows
    /\ db_cameras' = db_cameras \ {c}
    /\ db_disabled' = db_disabled \ {c}
    /\ db_invalid' = db_invalid \ {c}
    /\ UNCHANGED <<running, cameras, is_running, capture, last_frame, frame_count,
                   frame_queue, threads, worker, nread, main, newest, open_failures>>
    /\ UNCHANGED <<recVars, detVars>>

\* ------------------------------------------- NVRSystem.startup and shutdown

\* startup: "await self.camera_manager.start()" is Start; then
\* "await self.recording_manager.start()" ...
SysRecStart == main.op \notin {"init", "failed"} /\ RecStart

\* ... then "await self.detection_engine.start()".
SysDetStart(loaded) == rec_phase = "started" /\ DetStart(loaded)

\* shutdown: "await self.camera_manager.stop()" ...
SysStop == Up /\ Stop

\* ... then "await self.recording_manager.stop()" ...
SysRecStop == main.op = "stopped" /\ RecStop

\* ... then "await self.detection_engine.stop()".
SysDetStop == rec_phase = "stopped" /\ DetStop

\* The capture threads, with a backend that delivers one frame.
CaptureSteps ==
    \/ \E c \in CameraIds, w \in Workers : WorkerLoop(c, w)
    \/ \E c \in CameraIds, w \in Workers, ret \in BOOLEAN : WorkerReadUpTo(c, w, ret, 1)
    \/ \E c \in CameraIds, w \in Workers : WorkerStore(c, w, FALSE)

StartupSteps ==
    \/ \E opened \in [CameraIds -> BOOLEAN] : Start(opened)
    \/ SysRecStart
    \/ \E loaded \in BOOLEAN : SysDetStart(loaded)

\* ----------------------------------------------------------------- SpecReg

\* The system once started, with the requests that add, change and remove
\* cameras.
ReqAddCameraFromUrl(opened) == Up /\ AddCameraFromUrl(opened)

ReqRemoveCamera(c) == Up /\ RemoveCamera(c)

ReqUpdateCamera(c, enabled) == Up /\ UpdateCamera(c, enabled)

ReqCreateCamera == Up /\ CreateCamera

ReqDeleteCamera(c) == Up /\ DeleteCamera(c)

RegNext ==
    \/ StartupSteps
    \/ \E opened \in BOOLEAN : ReqAddCameraFromUrl(opened)
    \/ \E c \in CameraIds : ReqRemoveCamera(c)
    \/ \E c \in CameraIds, enabled \in BOOLEAN : ReqUpdateCamera(c, enabled)
    \/ ReqCreateCamera
    \/ \E c \in CameraIds : ReqDeleteCamera(c)
    \/ RemoveCameraDelete
    \/ RemoveCameraDeleteRaises
    \/ \E c \in CameraIds : JoinEnded(c)
    \/ \E c \in CameraIds : JoinTimedOut(c)
    \/ CaptureSteps

SpecReg == Init /\ [][RegNext]_vars

\* ------------------------------------------------------------ SpecShutdown

\* Two enabled cameras in the catalog.
ShutdownInit ==
    /\ CamInit
    /\ RecInit
    /\ DetInit
    /\ db_cameras = CameraIds
    /\ db_disabled = {}
    /\ db_invalid = {}
    /\ tz = 0

\* What shutdown does once it has been called.
ShutdownProgress ==
    \/ StopNext
    \/ \E c \in CameraIds : JoinEnded(c)
    \/ \E c \in CameraIds : JoinTimedOut(c)
    \/ SysRecStop
    \/ SysDetStop

ShutdownSteps == SysStop \/ ShutdownProgress

ShutdownNext == StartupSteps \/ CaptureSteps \/ ShutdownSteps

SpecShutdown == ShutdownInit /\ [][ShutdownNext]_vars

\* A join returns, when the thread has ended or after its timeout, and the
\* calls of shutdown follow one another; every thread is scheduled, but a
\* read() of the backend may never return.
FairShutdown ==
    /\ SpecShutdown
    /\ WF_vars(ShutdownProgress)
    /\ \A c \in CameraIds, w \in Workers :
          WF_vars(WorkerLoop(c, w)) /\ WF_vars(WorkerStore(c, w, FALSE))

\* ----------------------------------------------------------------- SpecLoad

\* Startup over a catalog of two enabled camera rows, any of which may hold
\* settings that are not JSON.
LoadInit ==
    /\ CamInit
    /\ RecInit
    /\ DetInit
    /\ db_cameras = CameraIds
    /\ db_disabled = {}
    /\ db_invalid \in SUBSET CameraIds
    /\ tz = 0

LoadNext == StartupSteps \/ CaptureSteps

SpecLoad == LoadInit /\ [][LoadNext]_vars


\* ------------------------------------------------ camera manager: properties

\* The step in which worker w of camera c stores the frame it holds.
StoreStep(c, w) == worker[c][w].pc = "store" /\ worker'[c][w].pc = "loop"

\* C1: get_frame(camera_id) returns None until a first frame has been stored
\* and afterwards the newest frame stored so far, never an older one.
C1_GetFrameIsNewest ==
    \A c \in CameraIds : GetFrame(c) = IF c \in cameras THEN newest[c] ELSE None

\* C2: in every reachable state the length of a camera's frame_queue is at most
\* its capacity of 30 frames, also with nobody draining it.
C2_QueueBounded ==
    \A c \in CameraIds : frame_queue[c].size <= QueueMaxSize

\* More frames have been stored than the queue holds, and the queue is full.
C2_Witness ==
    \E c \in cameras : Full(frame_queue[c]) /\ frame_count[c] > QueueMaxSize

C5_ReadFailureLeavesRunning ==
    [][\A c \in CameraIds, w \in Workers :
         (is_running[c] /\ running /\ capture[c] = "open" /\ WorkerRead(c, w, FALSE))
            => (~is_running'[c] /\ capture'[c] = "None")]_vars

\* stop_camera(c) has nothing left to do.
StoppedState(c) == ~is_running[c] /\ capture[c] = "None" /\ threads[c] = 0

\* stop_camera(c) returns in this step.
StopCameraReturns(c) ==
    /\ c \in cameras
    /\ main' = Idle
    /\ \/ StopCamera(c)
       \/ (main.op = "stop_camera" /\ (JoinEnded(c) \/ JoinTimedOut(c)))

\* C6: when stop_camera(c) returns, from whatever state it was called, the
\* camera is not running and holds no capture handle; a second call changes
\* nothing.
C6_StopCameraIdempotent ==
    [][\A c \in CameraIds :
         /\ StopCameraReturns(c) => StoppedState(c)'
         /\ (StoppedState(c) /\ StopCamera(c)) => UNCHANGED vars]_vars

\* stop_camera has returned for a camera that was running, its join timed out:
\* the abandoned thread is still blocked in read().
C6_Witness ==
    \E c \in cameras :
        /\ main = Idle
        /\ StoppedState(c)
        /\ \E w \in Workers : worker[c][w].pc = "reading"

\* The capture threads of camera c that are alive.
LiveCaptureWorkers(c) == {w \in Workers : worker[c][w].pc # "done"}

\* C18: whatever start and stop requests are made, a start after a stop whose
\* join timed out included, at most one worker thread per camera and role is
\* alive at any time (here: the capture threads and the detection threads).
C18_OneWorkerPerRole ==
    \A c \in CameraIds :
        /\ Cardinality(LiveCaptureWorkers(c)) <= 1
        /\ Cardinality(dlive[c]) <= 1

\* The step in which start_camera(c) opens the backend and starts a worker.
Reconnects(c) == c \in cameras /\ ~is_running[c] /\ is_running'[c]

\* C29: the frame_count that get_camera_info reports counts the frames since
\* the camera's last (re)connect: once start_camera has succeeded, after a
\* stop_camera, it is zero again.
C29_CountRestartsOnReconnect ==
    [][\A c \in CameraIds :
          Reconnects(c) => GetCameraInfoFrameCount(c)' = 0]_vars


\* --------------------------------------------- recording manager: properties

\* C7: every Recording row ever inserted has end_time > start_time; a segment
\* whose end_time would be less than or equal to its start_time is never
\* persisted.
C7_EndAfterStart == \A r \in recordings : r.end_time > r.start_time

\* The step that is a pass of _cleanup_old_recordings.
AgePass == cleanup_pc = "sleep" /\ cleanup_pc' = "age_done"

\* The rows created more than the retention time ago.
Expired == {r \in recordings : r.created_at < UtcNow - RetentionTicks}

\* C8: a successful pass of _cleanup_old_recordings at time `now` with
\* retention R deletes exactly the rows created earlier than now - R, with their
\* files, and leaves every other row and file untouched.
C8_DeletesExactlyExpired ==
    [][AgePass => /\ recordings' = recordings \ Expired
                  /\ files' = Unlink(files, {r.file_path : r \in Expired})]_vars

\* The step that is a pass of _enforce_storage_limit which returns without an
\* exception, and the rows it deletes.
CapacityPass == cleanup_pc = "age_done" /\ cleanup_pc' = "sleep" /\ EnforceStorageLimit

Deleted == recordings \ recordings'

\* The rows deleted are a prefix of the catalog in the order of creation.
DeletedIsPrefix ==
    \A d \in Deleted : \A k \in recordings :
        k.created_at < d.created_at => k \in Deleted

\* The bytes on disk once the rows created before row d are gone.
TotalBefore(d) ==
    TotalSize(files) -
    SumSizes(files, {k.file_path : k \in {q \in recordings : Earlier(q, d)}}
                    \cap DOMAIN files)

\* No row is deleted once the running total is at or under the limit.
NoneDeletedUnderLimit == \A d \in Deleted : TotalBefore(d) > MaxStorage

C15_StopRecordingStopsWorker ==
    [][\A c \in CameraIds :
          (rec_running /\ rthread[c].pc = "recording" /\ StopRecording(c))
              => rthread'[c].pc = "done"]_vars

\* The recording threads are scheduled; the insert of a row may fail each time.
RecThreadSteps ==
    \E c \in CameraIds :
        RecLoop(c) \/ RecWrite(c) \/ \E inserted \in BOOLEAN : RecClose(c, inserted)

FairRec == SpecRec /\ WF_vars(RecThreadSteps)

\* The paths a segment can have.
SegmentPaths == {SegmentPath(c, t) : c \in CameraIds, t \in 0..(MaxTime + 1)}

HasRow(p) == \E r \in recordings : r.file_path = p

\* A closed segment file without a Recording row.
Orphan(p) ==
    /\ Exists(files, p)
    /\ ~HasRow(p)
    /\ \A c \in CameraIds :
          ~(rthread[c].pc = "recording" /\ SegmentPath(c, rthread[c].start) = p)

\* C16: a closed segment file whose insert failed eventually has a Recording
\* row: the insert is retried.
C16_ClosedSegmentGetsRow == \A p \in SegmentPaths : Orphan(p) ~> HasRow(p)

\* C19: no retention pass, not even one that fails part-way, removes the row
\* of a Recording while its file still exists: whenever a row leaves the
\* catalog its file is gone.
C19_RowRemovedOnlyWithFile ==
    [][\A r \in recordings \ recordings' : ~Exists(files', r.file_path)]_vars

\* A pass has failed after unlinking: a row is left whose file is gone.  (The
\* segment was started at local time 0, so local time was never set back and
\* no other segment has had its path.)
C19_Witness ==
    \E r \in recordings :
        r.start_time = 0 /\ r.file_size > 0 /\ ~Exists(files, r.file_path)

\* C20: when the unlink of one Recording fails during an age pass, only that
\* Recording's deletion is aborted: every other expired Recording has its file
\* and its row removed in the same pass, and the failed one keeps both.
C20_FailureAbortsOnlyOneRow ==
    [][\A done \in SUBSET recordings : \A bad \in recordings :
          CleanupOldRecordingsUnlinkFails(done, bad) =>
              /\ recordings' = recordings \ (OldRecordings \ {bad})
              /\ files' = Unlink(files, {r.file_path : r \in OldRecordings \ {bad}})]_vars

\* C21: after a pass of _enforce_storage_limit that returns without an
\* exception, the bytes under the storage root are at or under the maximum,
\* whatever the storage root held before, files without a Recording row
\* included.
C21_UnderLimitAfterPass ==
    [][CapacityPass => TotalSize(files') <= MaxStorage]_vars

BeingWritten(p) ==
    \E c \in CameraIds :
        rthread[c].pc = "recording" /\ SegmentPath(c, rthread[c].start) = p

C24_NoWriteWhileNotRunning ==
    [][\A c \in CameraIds : RecWrite(c) => is_running[c]]_vars

\* The step in which _cleanup_old_recordings raises.
AgePassRaises ==
    \/ \E done \in SUBSET OldRecordings, bad \in OldRecordings :
          CleanupOldRecordingsUnlinkFails(done, bad)
    \/ CleanupOldRecordingsCommitFails

\* C30: a cycle of _storage_cleanup_loop runs both passes: when the age pass
\* raises, the loop still goes on to the capacity pass of the same cycle.
C30_CapacityPassAfterFailedAgePass ==
    [][AgePassRaises => cleanup_pc' = "age_done"]_vars


\* ---------------------------------------------- detection engine: properties

\* A detection thread of the camera ends an iteration of its loop in this
\* step: it goes to sleep.
IterationEnds(c) == \E w \in dlive[c] : dsleep[c][w] = 0 /\ dsleep'[c][w] > 0

\* The step that is an iteration of _detection_thread which commits.
CommittedPass(c, results) ==
    /\ det_cm /\ GetFrame(c) # None /\ det_model
    /\ \E w \in dlive[c], k \in TickPoints(results) : DetectPass(c, w, results, TRUE, k)

C25_EventsPassTheFilter ==
    \A e \in events : e.label \in DetectionClasses /\ e.confident

\* C25 witness: the detection thread has persisted Events of both configured
\* classes.
C25_Witness ==
    /\ \E e \in events : e.label = "person" /\ e.confident
    /\ \E e \in events : e.label = "car" /\ e.confident

\* The step that is an iteration of _detection_thread which reaches
\* _save_detection_event with the detections of `results`.
SavingPass(c, results) ==
    /\ det_cm /\ GetFrame(c) # None /\ det_model
    /\ Detections(results) # <<>>
    /\ \E w \in dlive[c], saved \in BOOLEAN, k \in TickPoints(results) :
          DetectPass(c, w, results, saved, k)

\* C26: a detection pass writes as many Event rows as detections passed the
\* filter, and all the rows of the pass have one start_time and one end_time.
C26_OneRowEachOneWindow ==
    [][\A c \in CameraIds : IterationEnds(c) => \A results \in Results :
          SavingPass(c, results) =>
              /\ Cardinality(events' \ events) = Len(Detections(results))
              /\ \A e1, e2 \in events' \ events :
                    e1.start_time = e2.start_time /\ e1.end_time = e2.end_time]_vars

\* The step in which a detection thread of camera c calls the model: an
\* iteration with a camera manager, a frame and a loaded model.
ModelInvoked(c) ==
    /\ det_cm /\ GetFrame(c) # None /\ det_model
    /\ IterationEnds(c)

\* C27: between two consecutive calls of the model for one camera at least
\* the throttle interval passes, on every path through the loop.
C27_ThrottledPerCamera ==
    [][\A c \in CameraIds : ModelInvoked(c) => dsince[c] >= ThrottleTicks]_vars


\* ------------------------------------------------- registry: properties

\* C17: when remove_camera deletes a camera's registry entry (and goes on to
\* its catalog row), stop_camera has returned for it: the camera is not
\* running, its capture handle is released and no thread is registered for
\* it, before and after the delete.
C17_RemovedAfterStopped ==
    [][\A c \in CameraIds :
          (c \in cameras /\ c \notin cameras') =>
              /\ ~is_running[c] /\ capture[c] = "None" /\ threads[c] = 0
              /\ ~is_running'[c] /\ capture'[c] = "None" /\ threads'[c] = 0]_vars

\* C17 witness: camera 1 has been removed while the system serves requests,
\* and the capture thread it had is still blocked in read(): the join in
\* stop_camera timed out and the delete followed.
C17_Witness ==
    /\ Up
    /\ main = Idle
    /\ 1 \notin cameras
    /\ 1 \notin CameraRows
    /\ \E w \in Workers : worker[1][w].pc = "reading"

\* The camera's row is persisted as enabled and a capture worker, a recording
\* worker and a detection worker are registered for its id.
Triad(c) ==
    /\ c \in db_cameras
    /\ threads[c] # 0
    /\ c \in recording_threads
    /\ c \in detection_threads

\* An add of camera c completes in this step: add_camera_from_url returns, or
\* startup, whose load_cameras registered c, returns.
AddCompletes(c) ==
    \/ Up /\ c \notin cameras /\ c \in cameras'
    \/ det_phase = "init" /\ det_phase' = "started" /\ c \in cameras'

\* C11: when the add of an enabled camera completes, the camera is persisted
\* and a capture worker, a recording worker and a detection worker exist for it.
C11_AddStartsTriad ==
    [][\A c \in CameraIds : AddCompletes(c) => Triad(c)']_vars

\* C12: whenever the system serves requests and no operation is in progress, a
\* camera has a live capture worker exactly if the catalog holds its row with
\* enabled = True.
C12_WorkerIffEnabled ==
    (Up /\ main = Idle) =>
        \A c \in CameraIds : (LiveCaptureWorkers(c) # {}) <=> (c \in db_cameras)

\* C28: a camera that cannot be started (its backend does not open, or its
\* stored settings are invalid) is the only one affected: load_cameras still
\* adds every other enabled camera and starts those that open, and the camera
\* manager's start returns.
C28_StartFailureIsolated ==
    [][\A opened \in [CameraIds -> BOOLEAN] :
          Start(opened)
          => /\ main' = Idle
             /\ \A c \in db_cameras \ db_invalid :
                   /\ c \in cameras'
                   /\ opened[c] => is_running'[c] /\ threads'[c] # 0]_vars

\* The part of C28 about a backend that does not open.
OpenFailureIsolated ==
    [][\A opened \in [CameraIds -> BOOLEAN] :
          Start(opened) /\ db_invalid = {}
          => /\ main' = Idle
             /\ \A c \in db_cameras :
                   /\ c \in cameras'
                   /\ opened[c] => is_running'[c] /\ threads'[c] # 0]_vars

\* The step in which remove_camera(c) ends, by its return or by an exception,
\* after stop_camera has returned.
RemoveCameraEnds(c) ==
    /\ main.op = "remove_camera"
    /\ main.cam = 0
    /\ c \in main.todo
    /\ main' = Idle

\* C31: when remove_camera(c) has ended, normally or by an exception, c is in
\* CameraManager.cameras if and only if the catalog still has its row.
C31_RegistryMatchesCatalog ==
    [][\A c \in CameraIds :
          RemoveCameraEnds(c) => (c \in cameras' <=> c \in CameraRows')]_vars

\* The part of C31 about a remove_camera that returns normally.
RemovedFromBoth ==
    [][\A c \in CameraIds :
          RemoveCameraEnds(c) /\ c \notin CameraRows'
          => c \notin cameras']_vars


\* ------------------------------------------------- shutdown: properties

\* NVRSystem.shutdown has been called.
ShutdownCalled == main.op \in {"stop", "stopped"}

\* NVRSystem.shutdown has returned.
ShutdownReturned == main.op = "stopped" /\ rec_phase = "stopped" /\ det_phase = "stopped"

\* C13: a shutdown that has been called returns, whatever the capture threads
\* do: a join whose thread stays blocked in read() times out and the stops go
\* on.
C13_ShutdownCompletes == ShutdownCalled ~> ShutdownReturned

\* C13 witness: shutdown has returned and a capture thread it gave up waiting
\* for is still blocked in read().
C13_Witness ==
    /\ ShutdownReturned
    /\ \E c \in CameraIds, w \in Workers : worker[c][w].pc = "reading"

\* The cameras whose join in stop_camera ran into its timeout: their capture
\* thread is still blocked in read() and is no longer registered.
TimedOutJoins ==
    {c \in CameraIds : threads[c] = 0 /\ \E w \in Workers : worker[c][w].pc = "reading"}

\* C14: CameraManager.stop waits one grace period at most: when it has
\* returned, no more than one of its joins, which follow one another, has run
\* into its 5 s timeout.
C14_OneGracePeriod ==
    main.op = "stopped" => Cardinality(TimedOutJoins) <= 1

====
